---- MODULE Spec2Model ----
(***************************************************************************)
(* Verification model of the Amazon monthly-transaction consolidation      *)
(* scripts under src/operational:                                          *)
(*    "New"      PrijsRapportAmazon - New.py                               *)
(*    "MergeAll" PrijsRapportAmazon - merge all.py                         *)
(*    "APC"      PrijsRapportAmazon - merge all - APC.py                   *)
(*                                                                         *)
(* Text is a sequence of one-character strings.  Characters outside ASCII  *)
(* and the multi-letter currency codes are written as named tokens:        *)
(*    "EUR" U+20AC   "GBP" U+00A3   "ZL" the text zl (U+0142)              *)
(*    "PLN", "SEK"   the three-letter codes                                *)
(*    "NNBSP" U+202F "NBSP" U+00A0  "UMINUS" U+2212                        *)
(* A Python float is modelled by the exact decimal it was read from:       *)
(* [tag, m, e] stands for m * 10^(-e); tag "nan" is float("nan") and tag   *)
(* "raise" is a propagating exception.                                     *)
(*                                                                         *)
(* A run of main() starts when the folders have been scanned: dirs holds   *)
(* the file selected for each marketplace.  One step reads and normalises  *)
(* one file, one writes the workbook, one prints the reconciliation.       *)
(***************************************************************************)
EXTENDS Integers, Sequences, FiniteSets, TLC

VARIABLES
    script,      \* which of the three scripts runs
    COL_MAP,     \* header translations built from the workbook at import
    PAY_MAP,     \* payment-type translations built from the workbook at import
    FX_TO_EUR,   \* New.py: configured rate per currency
    dirs,        \* marketplace code -> the file selected for it, or NoFile
    pc,          \* position of main()
    pos,         \* index of the next marketplace in the processing order
    frames,      \* the list `frames` of main(): one normalised batch per file
    log,         \* warnings printed for skipped marketplaces
    written,     \* the workbook written by to_excel
    report,      \* the reconciliation table printed at the end
    probe        \* input and result of a single function application

vars == <<script, COL_MAP, PAY_MAP, FX_TO_EUR, dirs, pc, pos, frames, log, written, report, probe>>

(***************************************************************************)
(* Generic helpers                                                         *)
(***************************************************************************)
Range(s) == {s[i] : i \in DOMAIN s}

Abs(n) == IF n < 0 THEN -n ELSE n

Max2(a, b) == IF a >= b THEN a ELSE b

RECURSIVE Pow10(_)
Pow10(n) == IF n = 0 THEN 1 ELSE 10 * Pow10(n - 1)

RECURSIVE SeqsUpTo(_, _)
SeqsUpTo(S, n) ==
    IF n = 0 THEN {<<>>}
    ELSE LET shorter == SeqsUpTo(S, n - 1)
         IN  shorter \cup {Append(s, c) : s \in shorter, c \in S}

(***************************************************************************)
(* Exact decimals standing for Python floats                               *)
(***************************************************************************)
RECURSIVE Norm(_)
Norm(v) ==
    IF v.m = 0 THEN [tag |-> v.tag, m |-> 0, e |-> 0]
    ELSE IF v.e > 0 /\ v.m % 10 = 0
         THEN Norm([tag |-> v.tag, m |-> v.m \div 10, e |-> v.e - 1])
         ELSE v

Num(m, e) == Norm([tag |-> "num", m |-> m, e |-> e])

Zero == Num(0, 0)

NaN == [tag |-> "nan", m |-> 0, e |-> 0]

Raise == [tag |-> "raise", m |-> 0, e |-> 0]

Cents(c) == Num(c, 2)

Neg(v) == [v EXCEPT !.m = -v.m]

Add(a, b) ==
    LET e == Max2(a.e, b.e)
    IN  IF a.tag = "nan" \/ b.tag = "nan" THEN NaN
        ELSE Num(a.m * Pow10(e - a.e) + b.m * Pow10(e - b.e), e)

Mul(a, b) ==
    IF a.tag = "nan" \/ b.tag = "nan" THEN NaN ELSE Num(a.m * b.m, a.e + b.e)

Sub(a, b) == Add(a, Neg(b))

\* abs(a - b) > 1e-6, for numbers a and b
DiffersBeyondEps(a, b) ==
    LET d == Sub(a, b)
    IN  IF d.tag = "nan" THEN FALSE
        ELSE IF d.e <= 6
        THEN Abs(d.m) > 1 \/ (Abs(d.m) = 1 /\ d.e < 6)
        ELSE Abs(d.m) > Pow10(d.e - 6)

\* abs(a - b) < 1e-6, for numbers a and b
WithinEps(a, b) ==
    LET d == Sub(a, b)
    IN  IF d.tag = "nan" THEN FALSE
        ELSE IF d.e <= 6 THEN d.m = 0 ELSE Abs(d.m) < Pow10(d.e - 6)

(***************************************************************************)
(* Python str and float primitives over character sequences                *)
(***************************************************************************)
DigitChars == <<"0", "1", "2", "3", "4", "5", "6", "7", "8", "9">>

IsDigit(c) == c \in Range(DigitChars)

DigitVal(c) == (CHOOSE i \in 1..10 : DigitChars[i] = c) - 1

\* characters for which str.isspace() is true
Whitespace == {" ", "NBSP", "NNBSP"}

Remove(s, c) == SelectSeq(s, LAMBDA x : x # c)

ReplaceChar(s, a, b) == [i \in 1..Len(s) |-> IF s[i] = a THEN b ELSE s[i]]

Contains(s, c) == c \in Range(s)

\* str.rfind for a single character: 0-based index of the last one, -1 if none
RFind(s, c) ==
    IF Contains(s, c)
    THEN (CHOOSE i \in 1..Len(s) : s[i] = c /\ \A j \in (i + 1)..Len(s) : s[j] # c) - 1
    ELSE -1

RECURSIVE LStrip(_)
LStrip(s) == IF s # <<>> /\ s[1] \in Whitespace THEN LStrip(Tail(s)) ELSE s

RECURSIVE RStrip(_)
RStrip(s) ==
    IF s # <<>> /\ s[Len(s)] \in Whitespace THEN RStrip(SubSeq(s, 1, Len(s) - 1)) ELSE s

Strip(s) == LStrip(RStrip(s))

RECURSIVE DigitsToNat(_)
DigitsToNat(ds) ==
    IF ds = <<>> THEN 0
    ELSE 10 * DigitsToNat(SubSeq(ds, 1, Len(ds) - 1)) + DigitVal(ds[Len(ds)])

RECURSIVE NatToDigits(_)
NatToDigits(n) ==
    IF n < 10 THEN <<DigitChars[n + 1]>>
    ELSE Append(NatToDigits(n \div 10), DigitChars[(n % 10) + 1])

\* float(str): surrounding whitespace is ignored, then an optional sign and
\* either "nan" or digits with at most one "." and at least one digit.
\* (Exponents, "inf" and "_" need characters the model's alphabet lacks.)
PyFloat(s) ==
    LET t     == Strip(s)
        signd == t # <<>> /\ t[1] \in {"+", "-"}
        body  == IF signd THEN Tail(t) ELSE t
        dot   == RFind(body, ".")
        ip    == IF dot = -1 THEN body ELSE SubSeq(body, 1, dot)
        fp    == IF dot = -1 THEN <<>> ELSE SubSeq(body, dot + 2, Len(body))
        sgn   == IF signd /\ t[1] = "-" THEN -1 ELSE 1
    IN  IF body = <<"n", "a", "n">> THEN NaN
        ELSE IF /\ \A i \in DOMAIN ip : IsDigit(ip[i])
                /\ \A i \in DOMAIN fp : IsDigit(fp[i])
                /\ Len(ip) + Len(fp) > 0
             THEN Num(sgn * DigitsToNat(ip \o fp), Len(fp))
             ELSE Raise

(***************************************************************************)
(* Money parsers                                                           *)
(***************************************************************************)
\* New.py: parse_money_smart
parse_money_smart(text) ==
    LET s0 == Strip(text)
        s  == Remove(Remove(Remove(Remove(Remove(Remove(Remove(s0,
                  "NNBSP"), "EUR"), "GBP"), "PLN"), "SEK"), "ZL"), " ")
        s2 == IF Contains(s, ",") /\ Contains(s, ".")
              THEN ReplaceChar(IF RFind(s, ",") > RFind(s, ".")
                               THEN Remove(s, ".") ELSE Remove(s, ","), ",", ".")
              ELSE IF Contains(s, ",")
                   THEN ReplaceChar(Remove(s, "."), ",", ".")
                   ELSE s
        r  == PyFloat(s2)
    IN  IF s = <<>> THEN Zero
        ELSE IF r.tag = "raise" THEN Zero ELSE r

\* merge all.py: parse_num (a lambda; float() errors propagate)
parse_num(s) ==
    IF s = <<>> THEN Zero
    ELSE PyFloat(ReplaceChar(Remove(Remove(Remove(s, "NNBSP"), " "), "."), ",", "."))

\* merge all - APC.py: parse_num
parse_num_APC(value) ==
    LET s0   == Strip(value)
        s1   == ReplaceChar(Remove(Remove(Remove(s0, "NNBSP"), " "), "EUR"), "UMINUS", "-")
        s2   == SelectSeq(s1, LAMBDA c : IsDigit(c) \/ c \in {",", ".", "-"})
        sign == IF s2 # <<>> /\ s2[1] = "-" THEN -1 ELSE 1
        s3   == Remove(IF s2 # <<>> /\ s2[1] \in {"+", "-"} THEN Tail(s2) ELSE s2, "+")
        decimal_pos == Max2(RFind(s3, ","), RFind(s3, "."))
        NoSep(x)    == Remove(Remove(x, "."), ",")
        int_raw     == NoSep(SubSeq(s3, 1, decimal_pos))
        int_part    == IF int_raw = <<>> THEN <<"0">> ELSE int_raw
        frac_part   == NoSep(SubSeq(s3, decimal_pos + 2, Len(s3)))
        number_str  == IF decimal_pos # -1
                       THEN IF frac_part # <<>> THEN int_part \o <<".">> \o frac_part
                            ELSE int_part
                       ELSE NoSep(s3)
        f == PyFloat(number_str)
    IN  IF value = <<>> THEN Zero
        ELSE IF s0 = <<>> THEN Zero
        ELSE IF s2 = <<>> \/ s2 \in {<<"-">>, <<".">>, <<",">>, <<"-", ".">>, <<"-", ",">>}
             THEN Zero
        ELSE IF s3 = <<>> THEN Zero
        ELSE IF number_str = <<>> THEN Zero
        ELSE IF f.tag = "num" THEN Num(sign * f.m, f.e) ELSE f

(***************************************************************************)
(* Money formatters                                                        *)
(***************************************************************************)
\* round-half-even of n / d, for n >= 0
RoundHalfEven(n, d) ==
    LET q == n \div d
        r == n % d
    IN  IF 2 * r > d THEN q + 1
        ELSE IF 2 * r < d THEN q
        ELSE IF q % 2 = 0 THEN q ELSE q + 1

\* the absolute value of v rounded to whole cents
AbsCents(v) ==
    IF v.e <= 2 THEN Abs(v.m) * Pow10(2 - v.e)
    ELSE RoundHalfEven(Abs(v.m), Pow10(v.e - 2))

RECURSIVE Group3(_)
Group3(ds) ==
    IF Len(ds) <= 3 THEN ds
    ELSE Group3(SubSeq(ds, 1, Len(ds) - 3)) \o <<",">> \o SubSeq(ds, Len(ds) - 2, Len(ds))

\* Python's format(v, ",.2f")
FormatComma2f(v) ==
    LET c == AbsCents(v)
    IN  IF v.tag = "nan" THEN <<"n", "a", "n">>
        ELSE
        (IF v.m < 0 THEN <<"-">> ELSE <<>>)
        \o Group3(NatToDigits(c \div 100))
        \o <<".">>
        \o <<DigitChars[((c % 100) \div 10) + 1], DigitChars[(c % 10) + 1]>>

\* .replace(",", " ").replace(".", ",")
EuSeparators(s) == ReplaceChar(ReplaceChar(s, ",", " "), ".", ",")

\* New.py: format_eu
format_eu(amount) ==
    LET sign  == IF amount.m < 0 THEN <<"-", " ">> ELSE <<>>
        amt   == [amount EXCEPT !.m = Abs(amount.m)]
        parts == EuSeparators(FormatComma2f(amt))
    IN  sign \o <<"EUR", " ">> \o parts

\* merge all.py and merge all - APC.py: fmt_eu
fmt_eu(v) ==
    (IF v.m < 0 THEN <<"-", " ">> ELSE <<>>)
    \o EuSeparators(<<"EUR", " ">> \o FormatComma2f([v EXCEPT !.m = Abs(v.m)]))

(***************************************************************************)
(* Date normalisation                                                      *)
(* Accented letters are named tokens: "e_acute", "u_circ", "a_uml",        *)
(* "n_acute", "z_acute" and their upper-case forms in capitals.            *)
(***************************************************************************)
UpperLetters ==
    <<"A", "B", "C", "D", "E", "F", "G", "H", "I", "J", "K", "L", "M",
      "N", "O", "P", "Q", "R", "S", "T", "U", "V", "W", "X", "Y", "Z",
      "E_ACUTE", "U_CIRC", "A_UML", "N_ACUTE", "Z_ACUTE">>

LowerLetters ==
    <<"a", "b", "c", "d", "e", "f", "g", "h", "i", "j", "k", "l", "m",
      "n", "o", "p", "q", "r", "s", "t", "u", "v", "w", "x", "y", "z",
      "e_acute", "u_circ", "a_uml", "n_acute", "z_acute">>

\* the base letter under each accented letter, as NFD decomposition gives it
AccentedLetters ==
    <<"e_acute", "u_circ", "a_uml", "n_acute", "z_acute",
      "E_ACUTE", "U_CIRC", "A_UML", "N_ACUTE", "Z_ACUTE">>

BaseLetters == <<"e", "u", "a", "n", "z", "E", "U", "A", "N", "Z">>

\* str.lower()
LowerChar(c) ==
    IF c \in Range(UpperLetters)
    THEN LowerLetters[CHOOSE i \in DOMAIN UpperLetters : UpperLetters[i] = c]
    ELSE c

Lower(s) == [i \in 1..Len(s) |-> LowerChar(s[i])]

\* merge all.py: _strip_accents
strip_accents(s) ==
    [i \in 1..Len(s) |->
        IF s[i] \in Range(AccentedLetters)
        THEN BaseLetters[CHOOSE k \in DOMAIN AccentedLetters : AccentedLetters[k] = s[i]]
        ELSE s[i]]

\* str.rstrip(".")
RECURSIVE RStripDots(_)
RStripDots(s) ==
    IF s # <<>> /\ s[Len(s)] = "." THEN RStripDots(SubSeq(s, 1, Len(s) - 1)) ELSE s

MONTH_TABLE ==
  <<
    \* EN
    << <<"J", "a", "n", "u", "a", "r", "y">>,
       <<"F", "e", "b", "r", "u", "a", "r", "y">>,
       <<"M", "a", "r", "c", "h">>,
       <<"A", "p", "r", "i", "l">>,
       <<"M", "a", "y">>,
       <<"J", "u", "n", "e">>,
       <<"J", "u", "l", "y">>,
       <<"A", "u", "g", "u", "s", "t">>,
       <<"S", "e", "p", "t", "e", "m", "b", "e", "r">>,
       <<"O", "c", "t", "o", "b", "e", "r">>,
       <<"N", "o", "v", "e", "m", "b", "e", "r">>,
       <<"D", "e", "c", "e", "m", "b", "e", "r">> >>,
    \* PL
    << <<"S", "t", "y", "c", "z", "e", "n_acute">>,
       <<"L", "u", "t", "y">>,
       <<"M", "a", "r", "z", "e", "c">>,
       <<"K", "w", "i", "e", "c", "i", "e", "n_acute">>,
       <<"M", "a", "j">>,
       <<"C", "z", "e", "r", "w", "i", "e", "c">>,
       <<"L", "i", "p", "i", "e", "c">>,
       <<"S", "i", "e", "r", "p", "i", "e", "n_acute">>,
       <<"W", "r", "z", "e", "s", "i", "e", "n_acute">>,
       <<"P", "a", "z_acute", "d", "z", "i", "e", "r", "n", "i", "k">>,
       <<"L", "i", "s", "t", "o", "p", "a", "d">>,
       <<"G", "r", "u", "d", "z", "i", "e", "n_acute">> >>,
    \* ES
    << <<"E", "n", "e", "r", "o">>,
       <<"F", "e", "b", "r", "e", "r", "o">>,
       <<"M", "a", "r", "z", "o">>,
       <<"A", "b", "r", "i", "l">>,
       <<"M", "a", "y", "o">>,
       <<"J", "u", "n", "i", "o">>,
       <<"J", "u", "l", "i", "o">>,
       <<"A", "g", "o", "s", "t", "o">>,
       <<"S", "e", "p", "t", "i", "e", "m", "b", "r", "e">>,
       <<"O", "c", "t", "u", "b", "r", "e">>,
       <<"N", "o", "v", "i", "e", "m", "b", "r", "e">>,
       <<"D", "i", "c", "i", "e", "m", "b", "r", "e">> >>,
    \* IT
    << <<"G", "e", "n", "n", "a", "i", "o">>,
       <<"F", "e", "b", "b", "r", "a", "i", "o">>,
       <<"M", "a", "r", "z", "o">>,
       <<"A", "p", "r", "i", "l", "e">>,
       <<"M", "a", "g", "g", "i", "o">>,
       <<"G", "i", "u", "g", "n", "o">>,
       <<"L", "u", "g", "l", "i", "o">>,
       <<"A", "g", "o", "s", "t", "o">>,
       <<"S", "e", "t", "t", "e", "m", "b", "r", "e">>,
       <<"O", "t", "t", "o", "b", "r", "e">>,
       <<"N", "o", "v", "e", "m", "b", "r", "e">>,
       <<"D", "i", "c", "e", "m", "b", "r", "e">> >>,
    \* FR
    << <<"J", "a", "n", "v", "i", "e", "r">>,
       <<"F", "e_acute", "v", "r", "i", "e", "r">>,
       <<"M", "a", "r", "s">>,
       <<"A", "v", "r", "i", "l">>,
       <<"M", "a", "i">>,
       <<"J", "u", "i", "n">>,
       <<"J", "u", "i", "l", "l", "e", "t">>,
       <<"A", "o", "u_circ", "t">>,
       <<"S", "e", "p", "t", "e", "m", "b", "r", "e">>,
       <<"O", "c", "t", "o", "b", "r", "e">>,
       <<"N", "o", "v", "e", "m", "b", "r", "e">>,
       <<"D", "e_acute", "c", "e", "m", "b", "r", "e">> >>,
    \* DE
    << <<"J", "a", "n", "u", "a", "r">>,
       <<"F", "e", "b", "r", "u", "a", "r">>,
       <<"M", "a_uml", "r", "z">>,
       <<"A", "p", "r", "i", "l">>,
       <<"M", "a", "i">>,
       <<"J", "u", "n", "i">>,
       <<"J", "u", "l", "i">>,
       <<"A", "u", "g", "u", "s", "t">>,
       <<"S", "e", "p", "t", "e", "m", "b", "e", "r">>,
       <<"O", "k", "t", "o", "b", "e", "r">>,
       <<"N", "o", "v", "e", "m", "b", "e", "r">>,
       <<"D", "e", "z", "e", "m", "b", "e", "r">> >>,
    \* NL
    << <<"J", "a", "n", "u", "a", "r", "i">>,
       <<"F", "e", "b", "r", "u", "a", "r", "i">>,
       <<"M", "a", "a", "r", "t">>,
       <<"A", "p", "r", "i", "l">>,
       <<"M", "e", "i">>,
       <<"J", "u", "n", "i">>,
       <<"J", "u", "l", "i">>,
       <<"A", "u", "g", "u", "s", "t", "u", "s">>,
       <<"S", "e", "p", "t", "e", "m", "b", "e", "r">>,
       <<"O", "k", "t", "o", "b", "e", "r">>,
       <<"N", "o", "v", "e", "m", "b", "e", "r">>,
       <<"D", "e", "c", "e", "m", "b", "e", "r">> >>
  >>

\* the keys one month name contributes to MONTH_MAP, in assignment order
MonthKeys(full, idx) ==
    LET base == Lower(strip_accents(full))
        Abbr(n) == IF Len(base) >= n
                   THEN << <<SubSeq(base, 1, n), idx>>,
                           <<Append(SubSeq(base, 1, n), "."), idx>> >>
                   ELSE <<>>
    IN  << <<base, idx>>, <<Lower(full), idx>> >> \o Abbr(3) \o Abbr(4)

RECURSIVE LanguageKeys(_, _)
LanguageKeys(names, idx) ==
    IF idx > Len(names) THEN <<>>
    ELSE MonthKeys(names[idx], idx) \o LanguageKeys(names, idx + 1)

RECURSIVE TableKeys(_)
TableKeys(k) ==
    IF k > Len(MONTH_TABLE) THEN <<>>
    ELSE LanguageKeys(MONTH_TABLE[k], 1) \o TableKeys(k + 1)

\* every assignment MONTH_MAP[key] = idx, in the order the module makes them
MonthAssignments ==
    TableKeys(1) \o << <<(<<"m", "r", "t">>), 3>>, <<(<<"m", "e", "i">>), 5>> >>

\* MONTH_MAP.get(key): the last assignment to the key wins; 0 stands for None
MONTH_MAP(key) ==
    LET hits == {i \in DOMAIN MonthAssignments : MonthAssignments[i][1] = key}
    IN  IF hits = {} THEN 0
        ELSE MonthAssignments[CHOOSE i \in hits : \A j \in hits : j <= i][2]

\* the characters of the class [A-Za-z, U+00C0..U+00FF, "."] of _TEXT_RE
TextClass ==
    (Range(UpperLetters) \cup Range(LowerLetters) \cup {"."})
        \ {"n_acute", "z_acute", "N_ACUTE", "Z_ACUTE"}

\* every character a date cell of the model may hold
DateChars ==
    Range(DigitChars) \cup Range(UpperLetters) \cup Range(LowerLetters)
        \cup {".", " ", "-", ":", "NBSP", "NNBSP"}

\* length of the longest run of characters of C starting at s[i]
RECURSIVE RunLen(_, _, _)
RunLen(s, i, C) == IF i <= Len(s) /\ s[i] \in C THEN 1 + RunLen(s, i + 1, C) ELSE 0

Digits == Range(DigitChars)

\* f"{n:02d}"
Pad2(n) == IF n < 10 THEN <<"0">> \o NatToDigits(n) ELSE NatToDigits(n)

NoMatch == [ok |-> FALSE, d |-> <<>>, w |-> <<>>, y |-> <<>>, end |-> 0]

\* (\d{1,2})\.(\d{1,2})\.(\d{4}) matched at position i: groups d, w, y and the
\* index of the last matched character
NumericAt(s, i) ==
    LET n1 == RunLen(s, i, Digits)
        j  == i + n1 + 1
        n2 == RunLen(s, j, Digits)
        k  == j + n2 + 1
        n3 == RunLen(s, k, Digits)
    IN  IF /\ n1 \in {1, 2} /\ RunLen(s, i + n1, {"."}) >= 1
           /\ n2 \in {1, 2} /\ RunLen(s, j + n2, {"."}) >= 1
           /\ n3 >= 4
        THEN [ok |-> TRUE, d |-> SubSeq(s, i, i + n1 - 1), w |-> SubSeq(s, j, j + n2 - 1),
              y |-> SubSeq(s, k, k + 3), end |-> k + 3]
        ELSE NoMatch

\* (\d{1,2})\s+(C+)\s+(\d{4}) matched at position i, for a class C of
\* characters none of which is whitespace
TextAt(s, i, C) ==
    LET n1 == RunLen(s, i, Digits)
        w1 == RunLen(s, i + n1, Whitespace)
        j  == i + n1 + w1
        n2 == RunLen(s, j, C)
        w2 == RunLen(s, j + n2, Whitespace)
        k  == j + n2 + w2
        n3 == RunLen(s, k, Digits)
    IN  IF n1 \in {1, 2} /\ w1 >= 1 /\ n2 >= 1 /\ w2 >= 1 /\ n3 >= 4
        THEN [ok |-> TRUE, d |-> SubSeq(s, i, i + n1 - 1), w |-> SubSeq(s, j, j + n2 - 1),
              y |-> SubSeq(s, k, k + 3), end |-> k + 3]
        ELSE NoMatch

\* New.py: reformat_date, for one cell: every match of the marketplace's
\* pattern is rewritten with the month number of the file
RECURSIVE ReformatFrom(_, _, _, _)
ReformatFrom(s, i, month_num, german) ==
    IF i > Len(s) THEN <<>>
    ELSE LET mt == IF german THEN NumericAt(s, i) ELSE TextAt(s, i, DateChars \ Whitespace)
         IN  IF mt.ok
             THEN Pad2(DigitsToNat(mt.d)) \o <<"-">> \o Pad2(month_num) \o <<"-">> \o mt.y
                      \o ReformatFrom(s, mt.end + 1, month_num, german)
             ELSE <<s[i]>> \o ReformatFrom(s, i + 1, month_num, german)

reformat_date(text, month_num, german) == ReformatFrom(text, 1, month_num, german)

\* merge all.py and merge all - APC.py: norm_date
norm_date(raw) ==
    LET text == Strip(raw)
        num  == NumericAt(text, 1)
        txt  == TextAt(text, 1, TextClass)
        mn   == MONTH_MAP(strip_accents(RStripDots(Lower(txt.w))))
    IN  IF num.ok
        THEN Pad2(DigitsToNat(num.d)) \o <<"-">> \o Pad2(DigitsToNat(num.w)) \o <<"-">>
                 \o NatToDigits(DigitsToNat(num.y))
        ELSE IF txt.ok /\ mn # 0
             THEN Pad2(DigitsToNat(txt.d)) \o <<"-">> \o Pad2(mn) \o <<"-">> \o txt.y
             ELSE text

(***************************************************************************)
(* Pure-function harness for the money parsers and formatters:             *)
(* the initial state draws one input, each action applies one function.    *)
(***************************************************************************)
MaxTextLen == 3

MaxSmallCents == 120

\* characters other than digits that a monetary cell may hold
NoDigitAlphabet == {" ", "NNBSP", "-", "+", "UMINUS", ",", ".", "EUR", "n", "a", "/"}

NoDigitTexts == SeqsUpTo(NoDigitAlphabet, MaxTextLen)

\* amounts with a thousands group, in cents
GroupedCents == {100000, 123456, 123456789}

RoundTripCents ==
    (-MaxSmallCents..MaxSmallCents) \cup GroupedCents \cup {-c : c \in GroupedCents}

RECURSIVE GroupWith(_, _)
GroupWith(ds, g) ==
    IF Len(ds) <= 3 THEN ds
    ELSE GroupWith(SubSeq(ds, 1, Len(ds) - 3), g) \o g \o SubSeq(ds, Len(ds) - 2, Len(ds))

\* the amount of c cents written with grouping g (<<>> for none), decimal
\* separator d and a leading sign sgn (<<>> for none)
Written(c, g, d, sgn) ==
    sgn \o GroupWith(NatToDigits(c \div 100), g) \o <<d>>
        \o <<DigitChars[((c % 100) \div 10) + 1], DigitChars[(c % 10) + 1]>>

WrittenCents == {0, 5, 1250} \cup GroupedCents

\* (grouping, decimal separator) of the supported conventions
Conventions ==
    {<<g, ",">> : g \in {<<>>, <<" ">>, <<"NNBSP">>, <<"NBSP">>, <<".">>}}
        \cup {<<g, ".">> : g \in {<<>>, <<",">>}}

MoneyInputs ==
    {[kind |-> "written", x |-> Cents(c), text |-> Written(c, cv[1], cv[2], <<>>)] :
        c \in WrittenCents, cv \in Conventions}
    \cup {[kind |-> "written", x |-> Cents(-c), text |-> Written(c, cv[1], cv[2], <<"-">>)] :
        c \in WrittenCents \ {0}, cv \in Conventions}
    \cup {[kind |-> "nodigit", x |-> Zero, text |-> t] : t \in NoDigitTexts}
    \cup {[kind |-> "amount", x |-> Cents(c), text |-> <<>>] : c \in RoundTripCents}

\* what may stand before an amount: nothing, an ASCII minus, a unicode minus,
\* and the minus and currency symbol the formatters write
Signs == {<<>>, <<"-">>, <<"UMINUS">>, <<"-", " ", "EUR", " ">>}

\* amounts written without a sign (plain) and the same text behind a sign
SignedInputs ==
    {[kind |-> "signed", x |-> Cents(c), sign |-> sg,
      plain |-> Written(c, cv[1], cv[2], <<>>), text |-> Written(c, cv[1], cv[2], sg)] :
        c \in WrittenCents \ {0}, cv \in Conventions, sg \in Signs}

Idle ==
    /\ script = "none"
    /\ COL_MAP = <<>>
    /\ PAY_MAP = <<>>
    /\ FX_TO_EUR = <<>>
    /\ dirs = <<>>
    /\ pos = 0
    /\ frames = <<>>
    /\ log = <<>>
    /\ written = <<>>
    /\ report = <<>>

pipelineVars == <<script, COL_MAP, PAY_MAP, FX_TO_EUR, dirs, pc, pos, frames, log, written, report>>

InitMoney ==
    /\ Idle
    /\ pc = "probe"
    /\ \/ \E i \in MoneyInputs :
             probe = [kind |-> i.kind, x |-> i.x, text |-> i.text, fn |-> "none", out |-> Zero]
       \/ \E i \in SignedInputs :
             probe = [kind |-> i.kind, x |-> i.x, text |-> i.text, fn |-> "none", out |-> Zero,
                      sign |-> i.sign, plain |-> i.plain]

ApplyParse(name, result) ==
    /\ pc = "probe"
    /\ probe.fn = "none"
    /\ probe.kind \in {"written", "nodigit", "signed"}
    /\ probe' = [probe EXCEPT !.fn = name, !.out = result]
    /\ UNCHANGED pipelineVars

ApplyParseMoneySmart == ApplyParse("parse_money_smart", parse_money_smart(probe.text))

ApplyParseNum == ApplyParse("parse_num", parse_num(probe.text))

ApplyParseNumAPC == ApplyParse("parse_num_APC", parse_num_APC(probe.text))

ApplyRoundTrip(name, shown, result) ==
    /\ pc = "probe"
    /\ probe.fn = "none"
    /\ probe.kind = "amount"
    /\ probe' = [probe EXCEPT !.fn = name, !.text = shown, !.out = result]
    /\ UNCHANGED pipelineVars

\* New.py: parse_money_smart(format_eu(x))
RoundTripNew ==
    ApplyRoundTrip("format_eu", format_eu(probe.x), parse_money_smart(format_eu(probe.x)))

\* merge all.py: parse_num(fmt_eu(x))
RoundTripMergeAll ==
    ApplyRoundTrip("fmt_eu", fmt_eu(probe.x), parse_num(fmt_eu(probe.x)))

\* merge all - APC.py: parse_num(fmt_eu(x))
RoundTripAPC ==
    ApplyRoundTrip("fmt_eu_APC", fmt_eu(probe.x), parse_num_APC(fmt_eu(probe.x)))

NextMoney ==
    \/ ApplyParseMoneySmart
    \/ ApplyParseNum
    \/ ApplyParseNumAPC
    \/ RoundTripNew
    \/ RoundTripMergeAll
    \/ RoundTripAPC

SpecMoney == InitMoney /\ [][NextMoney]_vars

\* C5: parsing the display string the formatter produced for an amount of at
\* most two decimals returns that amount to within 1e-6, in each script's
\* formatter/parser pair.
C5_RoundTrip ==
    (pc = "probe" /\ probe.fn \in {"format_eu", "fmt_eu", "fmt_eu_APC"})
        => (probe.out.tag = "num" /\ WithinEps(probe.out, probe.x))

\* C6: an integer-cent amount written with a decimal comma (alone or after
\* "." groups), with a decimal point after "," groups, or with space-like
\* grouping characters parses to that amount, in parse_money_smart and in the
\* APC parse_num.
C6_Separators ==
    (/\ pc = "probe"
     /\ probe.kind = "written"
     /\ probe.fn \in {"parse_money_smart", "parse_num_APC"}
     /\ Contains(probe.text, ","))
        => probe.out = probe.x

\* the parser that was applied, applied to another text
SameParser(text) ==
    IF probe.fn = "parse_money_smart" THEN parse_money_smart(text) ELSE parse_num_APC(text)

\* C13: in parse_money_smart and in the APC parse_num, an amount behind an
\* ASCII minus, a unicode minus or the formatter's "- EUR " parses to the
\* negated value of the amount without the sign, and an amount without a sign
\* parses to a value that is not negative.
C13_LeadingMinus ==
    (/\ pc = "probe"
     /\ probe.kind = "signed"
     /\ probe.fn \in {"parse_money_smart", "parse_num_APC"})
        => /\ probe.out.tag = "num"
           /\ probe.sign = <<>> => probe.out.m >= 0
           /\ probe.sign # <<>> => probe.out = Neg(SameParser(probe.plain))

\* C7: for a text without any digit every money parser returns 0.0 and
\* raises nothing.
C7_ParserTotal ==
    (pc = "probe" /\ probe.kind = "nodigit" /\ probe.fn # "none") => probe.out = Zero

(***************************************************************************)
(* Pure-function harness for date normalisation: the initial state draws a *)
(* date text, the marketplace code and the month of the file name.         *)
(***************************************************************************)
MaxDay == 15

\* marketplaces configured in New.py's COUNTRY_DIRS
NewMarketplaces == <<"DE", "FR", "PL">>

\* month numbers a candidate file name may carry (MONTH_ABBR_TO_NUM)
FileMonths == {4, 10}

SampleYear == <<"2", "0", "2", "5">>

\* the spellings of one month name: as listed, lower case, accent-stripped,
\* and its 3- and 4-letter abbreviations with or without a period
Spellings(full) ==
    LET Abbr(n) == IF Len(full) >= n
                   THEN {SubSeq(full, 1, n), Append(SubSeq(full, 1, n), ".")}
                   ELSE {}
    IN  {full, Lower(full), strip_accents(full)} \cup Abbr(3) \cup Abbr(4)

MonthWords(mo) == UNION {Spellings(MONTH_TABLE[k][mo]) : k \in DOMAIN MONTH_TABLE}

DateDays == {d \in {5, MaxDay} : d <= MaxDay}

DateInputs ==
    {[day |-> d, month |-> mo,
      text |-> NatToDigits(d) \o <<".">> \o NatToDigits(mo) \o <<".">> \o SampleYear] :
        d \in DateDays, mo \in 1..12}
    \cup UNION {{[day |-> d, month |-> mo,
                  text |-> NatToDigits(d) \o <<" ">> \o w \o <<" ">> \o SampleYear] :
                    w \in MonthWords(mo)} : d \in DateDays, mo \in 1..12}

\* the dd-mm-yyyy string of the day a date input denotes
Canonical(day, month, year) == Pad2(day) \o <<"-">> \o Pad2(month) \o <<"-">> \o year

\* date cells that are no date of either shape, and one dotted date, which
\* only a marketplace flagged as numeric-style reads as a date in New.py
UnparsedInputs ==
    {[shape |-> "numeric", text |-> <<"5", ".", "1", "0", ".">> \o SampleYear],
     [shape |-> "word",    text |-> <<"5", " ", "f", "o", "o", " ">> \o SampleYear],
     [shape |-> "word",    text |-> <<"1", "5", " ", "X", "y", "z", ".", " ">> \o SampleYear],
     [shape |-> "other",   text |-> <<>>],
     [shape |-> "other",   text |-> <<"f", "o", "o">>],
     [shape |-> "other",   text |-> SampleYear \o <<"-", "1", "0", "-", "0", "5">>],
     [shape |-> "other",   text |-> <<"5", ".", "1", "0", ".", "2", "5">>],
     [shape |-> "other",   text |-> <<"5", " ">> \o SampleYear],
     [shape |-> "other",   text |-> <<" ", "f", "o", "o">>]}

InitDate ==
    /\ Idle
    /\ pc = "probe"
    /\ \E c \in Range(NewMarketplaces), fm \in FileMonths :
          \/ \E i \in DateInputs :
                probe = [kind |-> "date", day |-> i.day, month |-> i.month, year |-> SampleYear,
                         text |-> i.text, cc |-> c, month_num |-> fm, fn |-> "none", out |-> <<>>]
          \/ \E u \in UnparsedInputs :
                probe = [kind |-> "unparsed", shape |-> u.shape,
                         text |-> u.text, cc |-> c, month_num |-> fm, fn |-> "none", out |-> <<>>]

ApplyDate(name, result) ==
    /\ pc = "probe"
    /\ probe.fn = "none"
    /\ probe.kind \in {"date", "unparsed"}
    /\ probe' = [probe EXCEPT !.fn = name, !.out = result]
    /\ UNCHANGED pipelineVars

\* New.py line 268: reformat_date(df["date/time"], cf.month_num, german=(cf.country == "DE"))
ApplyReformatDate ==
    ApplyDate("reformat_date", reformat_date(probe.text, probe.month_num, probe.cc = "DE"))

\* merge all.py line 192: df["date/time"].map(norm_date)
ApplyNormDate == ApplyDate("norm_date", norm_date(probe.text))

NextDate == ApplyReformatDate \/ ApplyNormDate

SpecDate == InitDate /\ [][NextDate]_vars

\* C8: a dotted numeric date and a "D <monthname> YYYY" date normalise to the
\* zero-padded dd-mm-yyyy string of the day they denote, with the month taken
\* from the text, for every marketplace code and in both normalisers.
C8_DateFromText ==
    (pc = "probe" /\ probe.kind = "date" /\ probe.fn # "none")
        => probe.out = Canonical(probe.day, probe.month, probe.year)

\* C15: a date text that is neither a dotted numeric date nor a
\* "D <monthname> YYYY" text with a month name of the month table (a text with
\* an unknown month word, any other text, or a dotted date in New.py for a
\* marketplace that is not numeric-style) comes back unchanged.
C15_UnparsedUnchanged ==
    (/\ pc = "probe" /\ probe.kind = "unparsed" /\ probe.fn # "none"
     /\ \/ probe.shape # "numeric"
        \/ probe.fn = "reformat_date" /\ probe.cc # "DE")
        => probe.out = probe.text

\* ---------------------------------------------------------------------------
\* Configuration of the pipeline
\* ---------------------------------------------------------------------------

Scripts == {"New", "MergeAll", "APC"}

FINAL_COLS ==
    <<"country", "date/time", "settlement id", "type", "order id", "sku",
      "description", "quantity", "marketplace", "fulfilment", "order city",
      "order state", "order postal", "product sales", "product sales tax",
      "postage credits", "shipping credits tax", "gift wrap credits",
      "gift wrap credits tax", "promotional rebates", "promotional rebates tax",
      "marketplace withheld tax", "selling fees", "fba fees",
      "other transactions fees", "other", "total">>

NonMoneyCols ==
    {"country", "date/time", "settlement id", "type", "order id", "sku",
     "description", "quantity", "marketplace", "fulfilment",
     "order city", "order state", "order postal"}

IsMoneyCol(c) == c \notin NonMoneyCols

MONEY_COLS == SelectSeq(FINAL_COLS, IsMoneyCol)

\* the four headline metrics of the sanity check and of the reconciliation
metrics == <<"product sales", "selling fees", "fba fees", "total">>

ENGLISH_NORMALIZATION ==
    [c \in {"giftwrap credits tax", "other transaction fees"} |->
        IF c = "giftwrap credits tax" THEN "gift wrap credits tax"
        ELSE "other transactions fees"]

\* dict.get(key, default)
Get(map, key, default) == IF key \in DOMAIN map THEN map[key] ELSE default

\* marketplaces in the insertion order of COUNTRY_DIRS
COUNTRY_DIRS(s) ==
    IF s = "New" THEN NewMarketplaces ELSE <<"DE", "FR", "ES", "IT", "NL", "BE">>

\* Python compares the two-letter codes lexicographically
CodeRank ==
    [c \in {"BE", "DE", "ES", "FR", "IT", "NL", "PL"} |->
        CASE c = "BE" -> 1 [] c = "DE" -> 2 [] c = "ES" -> 3 [] c = "FR" -> 4
          [] c = "IT" -> 5 [] c = "NL" -> 6 [] c = "PL" -> 7]

CodeBefore(a, b) == CodeRank[a] < CodeRank[b]

\* the text a marketplace code is written as in the country column
CodeText ==
    [c \in DOMAIN CodeRank |->
        CASE c = "BE" -> <<"B", "E">> [] c = "DE" -> <<"D", "E">>
          [] c = "ES" -> <<"E", "S">> [] c = "FR" -> <<"F", "R">>
          [] c = "IT" -> <<"I", "T">> [] c = "NL" -> <<"N", "L">>
          [] c = "PL" -> <<"P", "L">>]

CURRENCY_BY_COUNTRY ==
    [c \in {"SE", "PL", "UK"} |->
        CASE c = "SE" -> "SEK" [] c = "PL" -> "PLN" [] c = "UK" -> "GBP"]

\* the period forced by FORCE_YEAR / FORCE_MONTH_ABBR: every chosen file is of
\* this month
target_month == 10

\* the rates as configured in the source
FxSource ==
    [c \in {"EUR", "SEK", "PLN", "GBP"} |->
        CASE c = "EUR" -> Num(1, 0) [] c = "SEK" -> Num(91021, 6)
          [] c = "PLN" -> Num(234907, 6) [] c = "GBP" -> Num(1137010, 6)]

\* the same table with the rate of the Polish zloty not filled in
FxWithoutPLN == [c \in {"EUR", "SEK", "GBP"} |-> FxSource[c]]

\* column identifiers: a name of the source or of FINAL_COLS, or a helper
\* column derived from a money column
Plain(c) == [k |-> "", n |-> c]
FloatCol(c) == [k |-> "_float", n |-> c]
EurCol(c) == [k |-> "_eur", n |-> c]
EurTextCol(c) == [k |-> "(EUR)", n |-> c]
FCol(c) == [k |-> "_f", n |-> c]

RECURSIVE SumSeq(_)
\* Series.sum(): 0 for an empty series
SumSeq(s) == IF s = <<>> THEN Zero ELSE Add(s[1], SumSeq(Tail(s)))

\* ---------------------------------------------------------------------------
\* File -> normalised batch
\*
\* A file is [present, readable, cols, rows]: cols is the header row and rows
\* the data rows, each a function from the headers to the text of the cell.
\* A batch is a sequence of rows, each a function from column identifiers to
\* values (text for the visible columns, numbers for the helper columns).
\* The headers of one file are taken to be renamed to distinct names.
\* ---------------------------------------------------------------------------

Transfer == <<"T", "r", "a", "n", "s", "f", "e", "r">>

\* str(c).lower() on the headers that occur in the sample files
LowerHeader(c) ==
    CASE c = "Datum/Uhrzeit" -> "datum/uhrzeit"
      [] c = "Typ" -> "typ"
      [] c = "Gesamt" -> "gesamt"
      [] OTHER -> c

\* header after both renames of New.py
NewName(c) ==
    LET t == Get(COL_MAP, LowerHeader(c), c)
    IN  Get(ENGLISH_NORMALIZATION, t, t)

\* header after the rename of merge all.py
MergeName(c) == Get(COL_MAP, LowerHeader(c), c)

\* a rename that adds no column, its missing cells read as the text "nan"
RenamedUnfilled(cols, row, name) ==
    [c \in {Plain(n) : n \in Range(name) \cup Range(FINAL_COLS)} |->
        IF c.n \in Range(name)
        THEN row[CHOOSE h \in Range(cols) : name[h] = c.n]
        ELSE <<"n", "a", "n">>]

\* the new name of every header in the script that runs
Renaming(cols, s) == [h \in Range(cols) |-> IF s = "New" THEN NewName(h) ELSE MergeName(h)]

\* the columns renamed with name, then the missing FINAL_COLS added as ""
Renamed(cols, row, name) ==
    [c \in {Plain(n) : n \in Range(name) \cup Range(FINAL_COLS)} |->
        IF c.n \in Range(name)
        THEN row[CHOOSE h \in Range(cols) : name[h] = c.n]
        ELSE <<>>]

WithFinalCols(cf, s) ==
    [i \in 1..Len(cf.rows) |-> Renamed(cf.cols, cf.rows[i], Renaming(cf.cols, s))]

\* New.py: reformat_date with the month of the file name; merge all.py: norm_date
NormalisedDate(text, cc, s) ==
    IF s = "New" THEN reformat_date(text, target_month, cc = "DE") ELSE norm_date(text)

\* type translated, country stamped, date normalised
Labelled(row, cc, s) ==
    [c \in DOMAIN row |->
        CASE c = Plain("type") -> Get(PAY_MAP, Lower(row[c]), row[c])
          [] c = Plain("country") -> CodeText[cc]
          [] c = Plain("date/time") -> NormalisedDate(row[c], cc, s)
          [] OTHER -> row[c]]

LabelledRows(rows, cc, s) == [i \in 1..Len(rows) |-> Labelled(rows[i], cc, s)]

\* a filter that keeps every row
KeepEveryRow(row) == TRUE

\* the filter df[df["type"] != "Transfer"]
NotTransfer(row) == row[Plain("type")] # Transfer

\* the rows of a file up to the Transfer filter
Kept(cf, cc, s) == SelectSeq(LabelledRows(WithFinalCols(cf, s), cc, s), NotTransfer)

\* parse_num of the script that runs
ParseNum(s, text) == IF s = "APC" THEN parse_num_APC(text) ELSE parse_num(text)

\* the parser a script applies to its money cells and to its display columns
Parse(s, text) == IF s = "New" THEN parse_money_smart(text) ELSE ParseNum(s, text)

\* the shadow value of every money column of a row
Shadows(row, s) == [m \in Range(MONEY_COLS) |-> Parse(s, row[Plain(m)])]

Currency(cc) == Get(CURRENCY_BY_COUNTRY, cc, "EUR")

\* New.py: shadow floats val, display text, converted shadows and their display
NewColumns(row, val, currency, rate) ==
    LET helpers == UNION {{FloatCol(m), EurCol(m), EurTextCol(m)} : m \in Range(MONEY_COLS)}
        meta == {Plain("_fx_currency"), Plain("_fx_rate_to_eur")}
    IN  [c \in DOMAIN row \cup helpers \cup meta |->
            CASE c.k = "_float" -> val[c.n]
              [] c.k = "_eur" -> Mul(val[c.n], rate)
              [] c.k = "(EUR)" -> format_eu(Mul(val[c.n], rate))
              [] c = Plain("_fx_currency") -> currency
              [] c = Plain("_fx_rate_to_eur") -> rate
              [] c.k = "" /\ c.n \in Range(MONEY_COLS) -> EuSeparators(FormatComma2f(val[c.n]))
              [] OTHER -> row[c]]

NewMoney(rows, currency, rate) ==
    [i \in 1..Len(rows) |-> NewColumns(rows[i], Shadows(rows[i], "New"), currency, rate)]

\* sum of a helper column against the sum of the re-parsed display column
SourceSum(rows, helper) == SumSeq([i \in 1..Len(rows) |-> rows[i][helper]])

OutputSum(rows, m, s) == SumSeq([i \in 1..Len(rows) |-> Parse(s, rows[i][Plain(m)])])

Outcome(err, rows) == [err |-> err, rows |-> rows]

\* New.py lines 292-300: the sanity check at the end of read_monthly_transaction
SanityChecked(df) ==
    IF \E i \in DOMAIN metrics :
            DiffersBeyondEps(SourceSum(df, FloatCol(metrics[i])), OutputSum(df, metrics[i], "New"))
    THEN Outcome("AssertionError", <<>>)
    ELSE Outcome("", df)

\* the rate is looked up after the money columns are parsed and before the
\* converted columns are made; parsing never raises
read_monthly_transaction(cf, cc) ==
    IF ~cf.readable THEN Outcome("read error", <<>>)
    ELSE IF Currency(cc) \notin DOMAIN FX_TO_EUR THEN Outcome("RuntimeError", <<>>)
    ELSE SanityChecked(NewMoney(Kept(cf, cc, "New"), Currency(cc), FX_TO_EUR[Currency(cc)]))

\* merge all.py: shadow floats val and display text, projected on the returned columns
MergeColumns(row, val) ==
    [c \in {Plain(n) : n \in Range(FINAL_COLS)} \cup {FCol(m) : m \in Range(MONEY_COLS)} |->
        CASE c.k = "_f" -> val[c.n]
          [] c.k = "" /\ c.n \in Range(MONEY_COLS) -> ReplaceChar(Remove(row[c], "NNBSP"), ".", ",")
          [] OTHER -> row[c]]

MergeMoney(rows, s) == [i \in 1..Len(rows) |-> MergeColumns(rows[i], Shadows(rows[i], s))]

\* parse_num raises on a money cell: the exception leaves process_file
RaiseChecked(df) ==
    IF \E i \in DOMAIN df, m \in Range(MONEY_COLS) : df[i][FCol(m)].tag = "raise"
    THEN Outcome("ValueError", <<>>)
    ELSE Outcome("", df)

process_file(cf, cc, s) ==
    IF ~cf.readable THEN Outcome("read error", <<>>)
    ELSE RaiseChecked(MergeMoney(Kept(cf, cc, s), s))

\* ---------------------------------------------------------------------------
\* main()
\* ---------------------------------------------------------------------------

\* New.py: the keys of `chosen`; merge all.py: the folders that hold a CSV file
Chosen == SelectSeq(COUNTRY_DIRS(script), LAMBDA c : dirs[c].present)

\* New.py iterates sorted(chosen.keys()), merge all.py iterates COUNTRY_DIRS.items()
ProcessingOrder == IF script = "New" THEN SortSeq(Chosen, CodeBefore) ELSE Chosen

RECURSIVE Flatten(_)
Flatten(fs) == IF fs = <<>> THEN <<>> ELSE fs[1] \o Flatten(Tail(fs))

\* pd.concat(frames, ignore_index=True): the union of the columns, NaN where a
\* batch lacks a column
Concat(fs) ==
    LET rows == Flatten(fs)
        columns == UNION {DOMAIN rows[i] : i \in DOMAIN rows}
    IN  [i \in 1..Len(rows) |->
            [c \in columns |-> IF c \in DOMAIN rows[i] THEN rows[i][c] ELSE NaN]]

output_cols ==
    IF script = "New"
    THEN [i \in 1..Len(FINAL_COLS) |-> Plain(FINAL_COLS[i])]
            \o [i \in 1..Len(MONEY_COLS) |-> EurTextCol(MONEY_COLS[i])]
            \o <<Plain("_fx_currency"), Plain("_fx_rate_to_eur")>>
    ELSE [i \in 1..Len(FINAL_COLS) |-> Plain(FINAL_COLS[i])]

NotWritten == [done |-> FALSE, cols |-> <<>>, rows |-> <<>>]

\* to_excel without a selection of columns: every column of the frame
WorkbookOfAllColumns(combined) ==
    [done |-> TRUE, cols |-> output_cols, rows |-> combined]

\* to_excel with the output columns
Workbook(combined) ==
    [done |-> TRUE,
     cols |-> output_cols,
     rows |-> [i \in 1..Len(combined) |-> [c \in Range(output_cols) |-> combined[i][c]]]]

\* one printed line of the reconciliation table; New.py also prints the sum of
\* the converted shadow column
ReportLineOf(m, src, out, eur) ==
    IF script = "New"
    THEN [metric |-> m, src |-> src, out |-> out, ok |-> WithinEps(src, out), eur |-> eur]
    ELSE [metric |-> m, src |-> src, out |-> out, ok |-> WithinEps(src, out)]

ReportLine(combined, m) ==
    ReportLineOf(m,
                 SourceSum(combined, IF script = "New" THEN FloatCol(m) ELSE FCol(m)),
                 OutputSum(combined, m, script),
                 IF script = "New" THEN SourceSum(combined, EurCol(m)) ELSE Zero)

\* parse_num raises on some cell of the display column of metric m
ReparseRaises(combined, m) ==
    \E i \in DOMAIN combined : Parse(script, combined[i][Plain(m)]).tag = "raise"

\* number of lines printed before the loop over the metrics ends or raises
RECURSIVE PrintedLines(_, _)
PrintedLines(combined, i) ==
    IF i > Len(metrics) \/ ReparseRaises(combined, metrics[i]) THEN i - 1
    ELSE PrintedLines(combined, i + 1)

\* the batch is appended, or the exception is printed and the file skipped
AppendOrSkip(cc, r) ==
    /\ frames' = IF r.err = "" THEN Append(frames, r.rows) ELSE frames
    /\ log' = IF r.err = "" THEN log ELSE Append(log, [cc |-> cc, err |-> r.err])
    /\ pos' = pos + 1
    /\ pc' = pc

\* the batch is appended, or the exception ends the run
AppendOrCrash(cc, r) ==
    IF r.err = ""
    THEN /\ frames' = Append(frames, r.rows)
         /\ pos' = pos + 1
         /\ UNCHANGED <<pc, log>>
    ELSE /\ pc' = "crashed"
         /\ log' = Append(log, [cc |-> cc, err |-> r.err])
         /\ UNCHANGED <<frames, pos>>

\* New.py lines 342-347: one iteration of the loop, exceptions caught
NewRead ==
    /\ script = "New"
    /\ pc = "loop"
    /\ pos <= Len(ProcessingOrder)
    /\ \E cc \in {ProcessingOrder[pos]} :
          AppendOrSkip(cc, read_monthly_transaction(dirs[cc], cc))
    /\ UNCHANGED <<script, COL_MAP, PAY_MAP, FX_TO_EUR, dirs, written, report, probe>>

\* merge all.py lines 213-226: one file of the loops, exceptions not caught
MergeRead ==
    /\ script \in {"MergeAll", "APC"}
    /\ pc = "loop"
    /\ pos <= Len(ProcessingOrder)
    /\ \E cc \in {ProcessingOrder[pos]} :
          AppendOrCrash(cc, process_file(dirs[cc], cc, script))
    /\ UNCHANGED <<script, COL_MAP, PAY_MAP, FX_TO_EUR, dirs, written, report, probe>>

\* New.py lines 314-316, 338-340, 349-351 (sys.exit(1)); merge all.py lines 228-229 (return)
NoFrames ==
    /\ pc = "loop"
    /\ pos > Len(ProcessingOrder)
    /\ frames = <<>>
    /\ pc' = "exit"
    /\ UNCHANGED <<script, COL_MAP, PAY_MAP, FX_TO_EUR, dirs, pos, frames, log, written, report, probe>>

\* New.py lines 353-362; merge all.py lines 231-233
Write ==
    /\ pc = "loop"
    /\ pos > Len(ProcessingOrder)
    /\ frames # <<>>
    /\ written' = Workbook(Concat(frames))
    /\ pc' = "written"
    /\ UNCHANGED <<script, COL_MAP, PAY_MAP, FX_TO_EUR, dirs, pos, frames, log, report, probe>>

\* the first n lines are printed; the loop ends, or parse_num raises in line n + 1
Printed(combined, n) ==
    /\ report' = [i \in 1..n |-> ReportLine(combined, metrics[i])]
    /\ pc' = IF n = Len(metrics) THEN "done" ELSE "crashed"
    /\ log' = IF n = Len(metrics) THEN log ELSE Append(log, [cc |-> "", err |-> "ValueError"])

\* New.py lines 364-385; merge all.py lines 235-241
Reconcile ==
    /\ pc = "written"
    /\ \E combined \in {Concat(frames)} : Printed(combined, PrintedLines(combined, 1))
    /\ UNCHANGED <<script, COL_MAP, PAY_MAP, FX_TO_EUR, dirs, pos, frames, written, probe>>

Next == NewRead \/ MergeRead \/ NoFrames \/ Write \/ Reconcile

\* ---------------------------------------------------------------------------
\* Runs of main() over sample folders
\* ---------------------------------------------------------------------------

MaxFiles == 2

MaxRows == 2

Order == <<"O", "r", "d", "e", "r">>

Adjustment == <<"A", "d", "j", "u", "s", "t", "m", "e", "n", "t">>

\* the French label of a transfer
Transfert == <<"T", "r", "a", "n", "s", "f", "e", "r", "t">>

SampleDate == <<"5", ".", "1", "0", ".", "2", "0", "2", "5">>

\* header translations of a workbook with a German, a French and an English row
ColMapSample ==
    [k \in {"datum/uhrzeit", "typ", "gesamt", "date/heure", "date/time", "type", "total"} |->
        CASE k \in {"datum/uhrzeit", "date/heure", "date/time"} -> "date/time"
          [] k \in {"typ", "type"} -> "type"
          [] k \in {"gesamt", "total"} -> "total"]

\* payment-type translations: local labels only
PayMapLocal ==
    [k \in {Lower(Transfert), <<"c", "o", "m", "m", "a", "n", "d", "e">>} |->
        IF k = Lower(Transfert) THEN Transfer ELSE Order]

\* payment-type translations in which the local label "Transfer" of some
\* language stands for another payment type
PayMapRelabel ==
    [k \in DOMAIN PayMapLocal \cup {Lower(Transfer)} |->
        IF k = Lower(Transfer) THEN Adjustment ELSE PayMapLocal[k]]

PayMaps == {PayMapLocal, PayMapRelabel}

\* the header row of a file of a marketplace
LocalHeaders(cc) ==
    CASE cc = "DE" -> <<"Datum/Uhrzeit", "Typ", "Gesamt">>
      [] cc = "FR" -> <<"date/heure", "type", "total">>
      [] OTHER -> <<"date/time", "type", "total">>

Row(type, total) == [type |-> type, date |-> SampleDate, total |-> total]

\* amounts with at most two decimal digits, with a currency symbol, with a
\* decimal point, with a grouping separator
TwoDecimalTotals ==
    {<<"1", "0", "0", ",", "0", "0">>,
     <<"5", "0", ",", "0", "0">>,
     <<"EUR", " ", "2", "5", ",", "0", "0">>,
     <<"1", "2", ".", "0", "0">>,
     <<"1", ".", "0", "0", "0", ",", "0", "0">>}

\* an amount grouped with a comma and without decimals
CommaGrouped == <<"1", ",", "2", "3", "4">>

RowSamples ==
    {Row(Order, <<"1", "0", "0", ",", "0", "0">>),
     Row(Transfer, <<"5", "0", ",", "0", "0">>),
     Row(Order, <<"EUR", " ", "2", "5", ",", "0", "0">>),
     Row(Transfert, <<"1", "2", ".", "0", "0">>),
     Row(Order, <<"1", "2", ".", "0", "0">>),
     Row(Order, <<"1", ".", "0", "0", "0", ",", "0", "0">>),
     Row(Order, CommaGrouped)}

NoFile == [present |-> FALSE, readable |-> FALSE, cols |-> <<>>, rows |-> <<>>]

Unreadable == [present |-> TRUE, readable |-> FALSE, cols |-> <<>>, rows |-> <<>>]

\* the file of marketplace cc that holds the sample rows rs
File(cc, rs) ==
    LET cols == LocalHeaders(cc)
    IN  [present |-> TRUE, readable |-> TRUE, cols |-> cols,
         rows |-> [i \in 1..Len(rs) |->
                    [h \in Range(cols) |->
                        IF h = cols[1] THEN rs[i].date
                        ELSE IF h = cols[2] THEN rs[i].type
                        ELSE rs[i].total]]]

\* the marketplaces whose folder may hold a file
SampleDirs(s) == IF s = "New" THEN NewMarketplaces ELSE <<"DE", "FR", "BE">>

RECURSIVE Layouts(_, _, _, _)
\* one file or NoFile per marketplace of ds: at most nf files, at most nr rows
Layouts(ds, samples, nf, nr) ==
    IF ds = <<>> THEN {<<>>}
    ELSE LET cc == ds[1]
             here == IF nf = 0 THEN {}
                     ELSE {Unreadable} \cup {File(cc, rs) : rs \in SeqsUpTo(samples, nr)}
         IN  {<<NoFile>> \o rest : rest \in Layouts(Tail(ds), samples, nf, nr)}
             \cup UNION {{<<f>> \o rest :
                            rest \in Layouts(Tail(ds), samples, nf - 1, nr - Len(f.rows))} :
                         f \in here}

Folders(s, samples) ==
    LET ds == SampleDirs(s)
    IN  {[cc \in Range(COUNTRY_DIRS(s)) |->
            IF cc \in Range(ds) THEN l[CHOOSE i \in DOMAIN ds : ds[i] = cc] ELSE NoFile] :
         l \in Layouts(ds, samples, MaxFiles, MaxRows)}

InitRun(samples, rates) ==
    /\ script \in Scripts
    /\ COL_MAP = ColMapSample
    /\ PAY_MAP \in PayMaps
    /\ FX_TO_EUR \in (IF script = "New" THEN rates ELSE {<<>>})
    /\ dirs \in Folders(script, samples)
    /\ pc = "loop"
    /\ pos = 1
    /\ frames = <<>>
    /\ log = <<>>
    /\ written = NotWritten
    /\ report = <<>>
    /\ probe = [kind |-> "none"]

Init == InitRun(RowSamples, {FxSource, FxWithoutPLN})

Spec == Init /\ [][Next]_vars

\* ---------------------------------------------------------------------------
\* Properties of a run
\* ---------------------------------------------------------------------------

Terminal == pc \in {"done", "exit", "crashed"}

Present == {cc \in DOMAIN dirs : dirs[cc].present}

\* what reading the file of marketplace cc yields in the script that runs
FileOutcome(cc) ==
    IF script = "New" THEN read_monthly_transaction(dirs[cc], cc)
    ELSE process_file(dirs[cc], cc, script)

\* the marketplaces whose file normalises without an exception
Sound == {cc \in Present : FileOutcome(cc).err = ""}

\* the type cell and the total cell of source row i of marketplace cc
SourceType(cc, i) == dirs[cc].rows[i][LocalHeaders(cc)[2]]

SourceTotal(cc, i) == dirs[cc].rows[i][LocalHeaders(cc)[3]]

\* the type the payment-type map gives a cell
Translated(t) == Get(PAY_MAP, Lower(t), t)

\* the source rows of cc whose translated type is not Transfer
Retained(cc) == {i \in DOMAIN dirs[cc].rows : Translated(SourceType(cc, i)) # Transfer}

\* the rows of the workbook that carry marketplace cc
WrittenRowsOf(cc) == {i \in DOMAIN written.rows : written.rows[i][Plain("country")] = CodeText[cc]}

MarketplaceOf(row) == CHOOSE cc \in DOMAIN CodeText : CodeText[cc] = row[Plain("country")]

\* C1: when a selected marketplace's currency has no rate in FX_TO_EUR, no
\* workbook is written, whatever the other marketplaces do.
C1_MissingRateAborts ==
    (script = "New"
        /\ \E cc \in Present : Get(CURRENCY_BY_COUNTRY, cc, "EUR") \notin DOMAIN FX_TO_EUR)
    => ~written.done

\* C2: a marketplace in which a reconciliation mismatch is detected keeps its
\* rows: the run ends with a written workbook that holds them.
C2_MismatchKeepsRows ==
    \A k \in DOMAIN log :
        (log[k].err = "AssertionError" /\ Terminal)
        => (written.done
            /\ Cardinality(WrittenRowsOf(log[k].cc)) = Cardinality(Retained(log[k].cc)))

\* C4: when every file is readable, every rate is configured and every total
\* is an amount of at most two decimals, the run ends with a report whose four
\* headline metrics all match.
C4_ClosedLoop ==
    (/\ Terminal
     /\ Present # {}
     /\ script = "New" => FX_TO_EUR = FxSource
     /\ \A cc \in Present :
            /\ dirs[cc].readable
            /\ \A i \in DOMAIN dirs[cc].rows : SourceTotal(cc, i) \in TwoDecimalTotals)
    => (/\ pc = "done"
        /\ Len(report) = Len(metrics)
        /\ \A k \in DOMAIN report : report[k].ok)

\* C9: when one file is unreadable, the workbook is still written and holds
\* the rows of every marketplace whose own file is sound.
C9_FileFailureIsolated ==
    (/\ Terminal
     /\ \E cc \in Present : ~dirs[cc].readable
     /\ Sound # {})
    => (/\ written.done
        /\ \A cc \in Sound : Cardinality(WrittenRowsOf(cc)) = Cardinality(Retained(cc)))

\* C10: the rows of the workbook follow the ascending order of the marketplace
\* codes, and there are as many as the processed files have non-Transfer rows.
C10_AscendingOrder ==
    written.done =>
        /\ \A i, j \in DOMAIN written.rows :
              i < j => ~CodeBefore(MarketplaceOf(written.rows[j]), MarketplaceOf(written.rows[i]))
        /\ Len(written.rows) = Cardinality({<<cc, i>> \in Sound \X (1..MaxRows) : i \in Retained(cc)})

\* ---------------------------------------------------------------------------
\* Runs over files whose rows differ in the type cell only
\* ---------------------------------------------------------------------------

\* a payment, the literal label, and a local label the map translates to
\* Transfer, as the map spells it and in capitals
TypeSamples ==
    {Order, Transfer, Transfert, <<"T", "R", "A", "N", "S", "F", "E", "R", "T">>}

TransferRows == {Row(t, <<"1", "0", "0", ",", "0", "0">>) : t \in TypeSamples}

InitTransfer == InitRun(TransferRows, {FxSource})

SpecTransfer == InitTransfer /\ [][Next]_vars

\* a type cell that is the literal "Transfer" or a label the map translates to it
TransferLabel(t) ==
    t = Transfer \/ (Lower(t) \in DOMAIN PAY_MAP /\ PAY_MAP[Lower(t)] = Transfer)

\* no row of a batch or of the workbook has type Transfer
NoTransferRow ==
    /\ \A k \in DOMAIN frames : \A i \in DOMAIN frames[k] : frames[k][i][Plain("type")] # Transfer
    /\ \A i \in DOMAIN written.rows : written.rows[i][Plain("type")] # Transfer

\* C3 as stated: every source row whose type cell is "Transfer" or a label the
\* map translates to "Transfer" is absent from the workbook, so a processed
\* marketplace has at most as many rows there as it has other source rows; and
\* no row of a batch or of the workbook has type "Transfer".
C3_TransferAbsent_AsStated ==
    /\ NoTransferRow
    /\ written.done =>
          \A cc \in Sound :
              Cardinality(WrittenRowsOf(cc))
                 <= Cardinality({i \in DOMAIN dirs[cc].rows : ~TransferLabel(SourceType(cc, i))})

\* C3 (amended): every source row whose type cell the map translates to
\* "Transfer", or whose type cell is the literal "Transfer" and is left as it
\* is by the map, is absent from the workbook; and no row of a batch or of the
\* workbook has type "Transfer".
C3_TransferAbsent ==
    /\ NoTransferRow
    /\ written.done =>
          \A cc \in Sound : Cardinality(WrittenRowsOf(cc)) <= Cardinality(Retained(cc))

\* C3 witness: a workbook is written from a file that holds a literal
\* "Transfer" row, which is dropped, next to a row that is kept.
C3_Witness ==
    /\ written.done
    /\ \E cc \in Sound :
          /\ \E i \in DOMAIN dirs[cc].rows :
                SourceType(cc, i) = Transfer /\ Translated(Transfer) = Transfer
          /\ Cardinality(WrittenRowsOf(cc)) = 1
          /\ Len(dirs[cc].rows) = 2

\* ---------------------------------------------------------------------------
\* build_translation_dicts
\*
\* A worksheet is a sequence of rows, each a sequence of cell texts; <<>> is
\* an empty cell (None or ''), and every cell outside the stored rows and
\* columns is empty.  Row 2 is the row of English labels.
\* ---------------------------------------------------------------------------

Cell(ws, r, c) == IF r \in DOMAIN ws /\ c \in DOMAIN ws[r] THEN ws[r][c] ELSE <<>>

\* ws.max_column
MaxColumn(ws) == IF ws = <<>> THEN 1 ELSE Len(ws[1])

LabelAt(ws, c) == [c |-> c, eng |-> Strip(Cell(ws, 2, c))]

HasLabel(x) == x.eng # <<>>

\* New.py, both sheets: the columns from 2 on whose label is not empty
LabelledColumns(ws) ==
    SelectSeq([i \in 1..(MaxColumn(ws) - 1) |-> LabelAt(ws, i + 1)], HasLabel)

\* merge all.py, header sheet: range(2, 29), labelled or not
HeaderColumns(ws) == [i \in 1..27 |-> LabelAt(ws, i + 1)]

RECURSIVE TruthyRun(_, _)
\* merge all.py, type sheet: the number of cells of row 2, from column c on,
\* before the first empty one
TruthyRun(ws, c) == IF Cell(ws, 2, c) # <<>> THEN 1 + TruthyRun(ws, c + 1) ELSE 0

\* merge all.py, type sheet: the columns from 1 on up to the first empty label
TypeColumns(ws) == [i \in 1..TruthyRun(ws, 1) |-> LabelAt(ws, i)]

\* the columns a script scans in a sheet
ScannedColumns(s, sheet, ws) ==
    IF s = "New" THEN LabelledColumns(ws)
    ELSE IF sheet = "headers" THEN HeaderColumns(ws)
    ELSE TypeColumns(ws)

\* the test that ends the scan: every scanned cell of row r is None or ''
RowIsBlank(ws, r, columns) == \A i \in DOMAIN columns : Cell(ws, r, columns[i].c) = <<>>

\* map.setdefault(key, eng): an entry once made is kept
AssignIfAbsent(map, key, eng) ==
    [k \in DOMAIN map \cup {key} |-> IF k \in DOMAIN map THEN map[k] ELSE eng]

\* map[key] = eng
Assign(map, key, eng) == [k \in DOMAIN map \cup {key} |-> IF k = key THEN eng ELSE map[k]]

\* the entry of one cell, if its stripped text is not empty
WithCell(map, local, eng) == IF local = <<>> THEN map ELSE Assign(map, Lower(local), eng)

RECURSIVE WithRow(_, _, _, _, _)
\* the entries of row r, columns i.. of the scanned columns, left to right
WithRow(map, ws, r, columns, i) ==
    IF i > Len(columns) THEN map
    ELSE WithRow(WithCell(map, Strip(Cell(ws, r, columns[i].c)), columns[i].eng),
                 ws, r, columns, i + 1)

\* ---------------------------------------------------------------------------
\* Runs of build_translation_dicts over sample workbooks
\* ---------------------------------------------------------------------------

\* language rows of a sample sheet; also the number of its cells that are filled
MaxLangRows == 3

\* row 2 of a sample sheet: a locale tag heading and two labels; the same
\* without the heading; the same with a label missing
FullLabels == <<<<"L">>, <<"X">>, <<"Y">>>>

LabelRows == {FullLabels, <<<<>>, <<"X">>, <<"Y">>>>, <<<<"L">>, <<>>, <<"Y">>>>}

SheetWidth == Len(FullLabels)

\* local texts: one text, the same in capitals with a trailing space, and a
\* cell of white space
LocalTexts == {<<"a">>, <<"A", " ">>, <<" ">>}

\* a locale tag of column 1
LocaleTag == <<"d", "e">>

\* the texts a filled cell of the language rows may hold, cells numbered row by row
TextsAt(i) == IF i % SheetWidth = 1 THEN {LocaleTag} ELSE LocalTexts

RECURSIVE CellFills(_, _)
\* the cells i.. of the language rows, at most budget of them filled
CellFills(i, budget) ==
    IF i > MaxLangRows * SheetWidth THEN {<<>>}
    ELSE {<<<<>>>> \o rest : rest \in CellFills(i + 1, budget)}
         \cup (IF budget = 0 THEN {}
               ELSE UNION {{<<v>> \o rest : rest \in CellFills(i + 1, budget - 1)} :
                           v \in TextsAt(i)})

Sheet(labels, cells) ==
    [r \in 1..(MaxLangRows + 2) |->
        IF r = 1 THEN [c \in 1..SheetWidth |-> <<>>]
        ELSE IF r = 2 THEN labels
        ELSE [c \in 1..SheetWidth |-> cells[(r - 3) * SheetWidth + c]]]

Sheets == {Sheet(l, cs) : l \in LabelRows, cs \in CellFills(1, MaxLangRows)}

\* the workbook is loaded; both sheets of a sample workbook hold the same
\* cells, the two scans being independent of each other
InitBuild ==
    /\ script \in {"New", "MergeAll"}
    /\ \E ws \in Sheets : probe = [kind |-> "workbook", ws_h |-> ws, ws_p |-> ws]
    /\ COL_MAP = <<>>
    /\ PAY_MAP = <<>>
    /\ pc = "headers"
    /\ pos = 3
    /\ FX_TO_EUR = <<>>
    /\ dirs = <<>>
    /\ frames = <<>>
    /\ log = <<>>
    /\ written = NotWritten
    /\ report = <<>>

\* New.py lines 140-144, merge all.py lines 121-126: one row of the header sheet
ScanHeaderRow ==
    /\ pc = "headers"
    /\ \E columns \in {ScannedColumns(script, "headers", probe.ws_h)} :
          /\ ~RowIsBlank(probe.ws_h, pos, columns)
          /\ COL_MAP' = WithRow(COL_MAP, probe.ws_h, pos, columns, 1)
    /\ pos' = pos + 1
    /\ UNCHANGED <<script, PAY_MAP, FX_TO_EUR, dirs, pc, frames, log, written, report, probe>>

\* New.py lines 138-139 and 150-151, merge all.py lines 121 and 133-134
EndHeaders ==
    /\ pc = "headers"
    /\ RowIsBlank(probe.ws_h, pos, ScannedColumns(script, "headers", probe.ws_h))
    /\ pc' = "types"
    /\ pos' = 3
    /\ UNCHANGED <<script, COL_MAP, PAY_MAP, FX_TO_EUR, dirs, frames, log, written, report, probe>>

\* New.py lines 155-159, merge all.py lines 135-140: one row of the type sheet
ScanTypeRow ==
    /\ pc = "types"
    /\ \E columns \in {ScannedColumns(script, "types", probe.ws_p)} :
          /\ ~RowIsBlank(probe.ws_p, pos, columns)
          /\ PAY_MAP' = WithRow(PAY_MAP, probe.ws_p, pos, columns, 1)
    /\ pos' = pos + 1
    /\ UNCHANGED <<script, COL_MAP, FX_TO_EUR, dirs, pc, frames, log, written, report, probe>>

\* New.py lines 153-154 and 161, merge all.py lines 135 and 142
EndTypes ==
    /\ pc = "types"
    /\ RowIsBlank(probe.ws_p, pos, ScannedColumns(script, "types", probe.ws_p))
    /\ pc' = "built"
    /\ UNCHANGED <<script, COL_MAP, PAY_MAP, FX_TO_EUR, dirs, pos, frames, log, written, report, probe>>

NextBuild == ScanHeaderRow \/ EndHeaders \/ ScanTypeRow \/ EndTypes

SpecBuild == InitBuild /\ [][NextBuild]_vars

\* ---------------------------------------------------------------------------
\* Properties of the finished maps
\* ---------------------------------------------------------------------------

\* the first row from 3 on whose cells in the columns are all empty
FirstBlankRow(ws, columns) ==
    CHOOSE r \in 3..(Len(ws) + 1) :
        RowIsBlank(ws, r, columns) /\ \A q \in 3..(r - 1) : ~RowIsBlank(ws, q, columns)

\* the key a cell gives
KeyOf(ws, r, c) == Lower(Strip(Cell(ws, r, c)))

\* the cells with text in the columns, in the rows before the first blank row
Contributors(ws, columns) ==
    {x \in (3..(FirstBlankRow(ws, columns) - 1)) \X DOMAIN columns :
        Strip(Cell(ws, x[1], columns[x[2]].c)) # <<>>}

\* map holds an entry for every contributing cell, to the label of a column
\* that holds the key, and every key of map is the text of a cell of a row
\* before the first blank row
BuiltFrom(map, ws, columns) ==
    /\ \A x \in Contributors(ws, columns) :
          /\ KeyOf(ws, x[1], columns[x[2]].c) \in DOMAIN map
          /\ \E y \in Contributors(ws, columns) :
                /\ KeyOf(ws, y[1], columns[y[2]].c) = KeyOf(ws, x[1], columns[x[2]].c)
                /\ map[KeyOf(ws, x[1], columns[x[2]].c)] = columns[y[2]].eng
    /\ \A k \in DOMAIN map :
          \E r \in 3..(FirstBlankRow(ws, columns) - 1), c \in 1..MaxColumn(ws) :
              KeyOf(ws, r, c) = k

\* C11: in the header sheet over the columns the script scans for labels, and
\* in the type sheet over the labelled columns from column 2 on: every cell
\* with text in a row before the first row that is empty in those columns has
\* its entry in the finished map, and no row from that row on gives an entry.
C11_ScanStopsAtBlankRow ==
    /\ pc \in {"types", "built"} =>
          BuiltFrom(COL_MAP, probe.ws_h, ScannedColumns(script, "headers", probe.ws_h))
    /\ pc = "built" => BuiltFrom(PAY_MAP, probe.ws_p, LabelledColumns(probe.ws_p))

\* C17: in the finished payment-type map every value is the label of a
\* labelled column from column 2 on, every key is the text of a cell of such a
\* column, and the scan of the type sheet ended at the first row that is empty
\* in those columns, whatever column 1 holds.
C17_FirstColumnIgnored ==
    pc = "built" =>
        /\ \A k \in DOMAIN PAY_MAP :
              \E i \in DOMAIN LabelledColumns(probe.ws_p) :
                  PAY_MAP[k] = LabelledColumns(probe.ws_p)[i].eng
        /\ \A k \in DOMAIN PAY_MAP :
              \E r \in 3..Len(probe.ws_p), i \in DOMAIN LabelledColumns(probe.ws_p) :
                  /\ Strip(Cell(probe.ws_p, r, LabelledColumns(probe.ws_p)[i].c)) # <<>>
                  /\ KeyOf(probe.ws_p, r, LabelledColumns(probe.ws_p)[i].c) = k
        /\ pos = FirstBlankRow(probe.ws_p, LabelledColumns(probe.ws_p))

\* cell x is scanned no later than cell y: row by row, left to right
ScannedBefore(x, y) == x[1] < y[1] \/ (x[1] = y[1] /\ x[2] <= y[2])

\* the contributing cells of the header sheet that give key k
CellsOfKey(ws, columns, k) ==
    {x \in Contributors(ws, columns) : KeyOf(ws, x[1], columns[x[2]].c) = k}

\* map holds, for every key, the label of the last scanned cell that gives it
LastScannedWins(map, ws, columns) ==
    \A x \in Contributors(ws, columns) :
        (\A y \in CellsOfKey(ws, columns, KeyOf(ws, x[1], columns[x[2]].c)) : ScannedBefore(y, x))
            => /\ KeyOf(ws, x[1], columns[x[2]].c) \in DOMAIN map
               /\ map[KeyOf(ws, x[1], columns[x[2]].c)] = columns[x[2]].eng

\* C18: every key of the finished header map is a lower-cased trimmed text, so
\* that the case and white-space variants of a text share one key, and the
\* value of a key is the label of the column of the last scanned cell that
\* gives the key.
C18_LastRowWins ==
    pc \in {"types", "built"} =>
        /\ \A k \in DOMAIN COL_MAP : k = Lower(Strip(k)) /\ k # <<>>
        /\ LastScannedWins(COL_MAP, probe.ws_h,
                           ScannedColumns(script, "headers", probe.ws_h))

\* the cells x and y of the header sheet hold variants of one text in
\* different rows under different labels
Conflict(ws, columns, x, y) ==
    /\ x[1] < y[1]
    /\ KeyOf(ws, x[1], columns[x[2]].c) = KeyOf(ws, y[1], columns[y[2]].c)
    /\ Cell(ws, x[1], columns[x[2]].c) # Cell(ws, y[1], columns[y[2]].c)
    /\ columns[x[2]].eng # columns[y[2]].eng

\* C18 witness: the header map is finished from a sheet in which two scanned
\* rows hold variants of one text under different labels.
C18_Witness ==
    /\ pc = "built"
    /\ \E columns \in {ScannedColumns(script, "headers", probe.ws_h)} :
          \E x \in Contributors(probe.ws_h, columns), y \in Contributors(probe.ws_h, columns) :
              Conflict(probe.ws_h, columns, x, y)

\* ---------------------------------------------------------------------------
\* Properties of the converted columns
\* ---------------------------------------------------------------------------

\* the sum re-parsed from the converted display column of metric m
ConvertedOutputSum(rows, m) ==
    SumSeq([i \in 1..Len(rows) |-> parse_money_smart(rows[i][EurTextCol(m)])])

\* C12: in the merged dataset of New.py every converted shadow is the native
\* shadow times the rate of the row, and for every headline metric the sum of
\* the converted shadows matches the sum re-parsed from the converted display
\* column within 1e-6.
C12_ConvertedReconciles ==
    (script = "New" /\ written.done) =>
        \E combined \in {Concat(frames)} :
            /\ \A i \in DOMAIN combined, m \in Range(MONEY_COLS) :
                  combined[i][EurCol(m)]
                     = Mul(combined[i][FloatCol(m)], combined[i][Plain("_fx_rate_to_eur")])
            /\ \A k \in DOMAIN metrics :
                  WithinEps(SourceSum(combined, EurCol(metrics[k])),
                            ConvertedOutputSum(combined, metrics[k]))

\* ---------------------------------------------------------------------------
\* Runs over files whose header rows differ
\* ---------------------------------------------------------------------------

ColumnRows ==
    {Row(Order, <<"1", "0", "0", ",", "0", "0">>), Row(Transfert, <<"5", "0", ",", "0", "0">>)}

\* which of the three sample headers a file holds, and whether it holds a
\* column that no translation knows
HeaderChoices == (SUBSET {1, 2, 3}) \X BOOLEAN

\* the file f with the headers of choice h only
WithHeaders(f, h) ==
    LET cols == SelectSeq(f.cols, LAMBDA c : \E i \in h[1] : f.cols[i] = c)
                    \o (IF h[2] THEN <<"memo">> ELSE <<>>)
    IN  IF ~f.readable THEN f
        ELSE [f EXCEPT !.cols = cols,
                       !.rows = [i \in 1..Len(f.rows) |->
                                    [c \in Range(cols) |->
                                        IF c = "memo" THEN <<"x">> ELSE f.rows[i][c]]]]

InitColumns ==
    /\ script \in Scripts
    /\ COL_MAP = ColMapSample
    /\ PAY_MAP = PayMapLocal
    /\ FX_TO_EUR \in (IF script = "New" THEN {FxSource} ELSE {<<>>})
    /\ \E d \in Folders(script, ColumnRows), h \in HeaderChoices :
          dirs = [cc \in DOMAIN d |-> WithHeaders(d[cc], h)]
    /\ pc = "loop"
    /\ pos = 1
    /\ frames = <<>>
    /\ log = <<>>
    /\ written = NotWritten
    /\ report = <<>>
    /\ probe = [kind |-> "none"]

SpecColumns == InitColumns /\ [][Next]_vars

\* the canonical columns the file of cc lacks after the translation of its headers
AbsentColumns(cc) ==
    Range(FINAL_COLS) \ {Renaming(dirs[cc].cols, script)[h] : h \in Range(dirs[cc].cols)}

ZeroDisplay == <<"0", ",", "0", "0">>

\* every row of every batch holds all canonical columns, and the projection of
\* the merged dataset finds all its columns
AllCanonicalColumns ==
    /\ \A k \in DOMAIN frames : \A i \in DOMAIN frames[k] :
          \A c \in Range(FINAL_COLS) : Plain(c) \in DOMAIN frames[k][i]
    /\ \A k \in DOMAIN frames : \A i \in DOMAIN frames[k] :
          Range(output_cols) \subseteq DOMAIN frames[k][i]
    /\ written.done =>
          \A i \in DOMAIN written.rows :
              DOMAIN written.rows[i] = Range(output_cols)

\* C14 as stated: every batch holds every canonical column, the projection
\* finds its columns, and a canonical column that the source lacks (other
\* than the stamped country) holds the empty string in every row.
C14_CanonicalColumns_AsStated ==
    /\ AllCanonicalColumns
    /\ \A k \in DOMAIN frames : \A i \in DOMAIN frames[k] :
          \A c \in AbsentColumns(MarketplaceOf(frames[k][i])) \ {"country"} :
              frames[k][i][Plain(c)] = <<>>

\* C14 (amended): every batch holds every canonical column, the projection
\* finds its columns, and a canonical column that the source lacks holds, in
\* every row, the marketplace code if it is country, the display of zero
\* "0,00" if it is a money column of New.py, and the empty string otherwise.
C14_CanonicalColumns ==
    /\ AllCanonicalColumns
    /\ \A k \in DOMAIN frames : \A i \in DOMAIN frames[k] :
          \A c \in AbsentColumns(MarketplaceOf(frames[k][i])) :
              frames[k][i][Plain(c)]
                 = IF c = "country" THEN CodeText[MarketplaceOf(frames[k][i])]
                   ELSE IF script = "New" /\ IsMoneyCol(c) THEN ZeroDisplay
                   ELSE <<>>

\* C14 witness: a workbook is written with a row of a file that has neither a
\* type nor a total column but a column that no translation knows.
C14_Witness ==
    /\ written.done
    /\ \E cc \in Sound :
          /\ {"type", "total"} \subseteq AbsentColumns(cc)
          /\ "memo" \in Range(dirs[cc].cols)
          /\ WrittenRowsOf(cc) # {}

\* ---------------------------------------------------------------------------
\* Columns of the workbook
\* ---------------------------------------------------------------------------

ShadowKinds == {"_float", "_eur", "_f"}

IsShadow(c) == c.k \in ShadowKinds

\* C16: the workbook holds no shadow column, in its header or in any row; its
\* first columns are the canonical columns in canonical order, and no later
\* column is a canonical one.
C16_NoShadowWritten ==
    written.done =>
        /\ \A i \in DOMAIN written.cols : ~IsShadow(written.cols[i])
        /\ \A i \in DOMAIN written.rows : \A c \in DOMAIN written.rows[i] : ~IsShadow(c)
        /\ \A i \in DOMAIN written.rows : DOMAIN written.rows[i] = Range(written.cols)
        /\ Len(written.cols) >= Len(FINAL_COLS)
        /\ \A i \in DOMAIN FINAL_COLS : written.cols[i] = Plain(FINAL_COLS[i])
        /\ \A i \in DOMAIN written.cols :
              i > Len(FINAL_COLS) => written.cols[i] \notin {Plain(c) : c \in Range(FINAL_COLS)}

\* C16 witness: a workbook with a row is written from batches that carry a
\* shadow column of the total.
C16_Witness ==
    /\ written.done
    /\ written.rows # <<>>
    /\ \E k \in DOMAIN frames : \E i \in DOMAIN frames[k] :
          \E c \in DOMAIN frames[k][i] : IsShadow(c) /\ c.n = "total"

\* ---------------------------------------------------------------------------
\* New.py: selection of the files of the period
\*
\* A file name is a record of its parts: the year digits, the month
\* abbreviation, the stem, the copy suffix ("" or " (1)") and the extension
\* after the dot.  A directory entry is a record of the marketplace folder it
\* lies in, its name, whether it is a regular file, and its modification time.
\* ---------------------------------------------------------------------------

MONTH_ABBR_TO_NUM ==
    [a \in {"Jan", "Feb", "Mar", "Apr", "May", "Jun", "Jul", "Aug", "Sep", "Oct", "Okt",
            "Nov", "Dec"} |->
        CASE a = "Jan" -> 1 [] a = "Feb" -> 2 [] a = "Mar" -> 3 [] a = "Apr" -> 4
          [] a = "May" -> 5 [] a = "Jun" -> 6 [] a = "Jul" -> 7 [] a = "Aug" -> 8
          [] a = "Sep" -> 9 [] a = "Oct" -> 10 [] a = "Okt" -> 10 [] a = "Nov" -> 11
          [] a = "Dec" -> 12]

FORCE_YEAR == 2025

FORCE_MONTH_ABBR == "Oct"

\* FNAME_RE.match(name)
FNAME_RE(name) ==
    /\ Len(name.year) = 4
    /\ SubSeq(name.year, 1, 2) = <<"2", "0">>
    /\ IsDigit(name.year[3]) /\ IsDigit(name.year[4])
    /\ name.mon \in DOMAIN MONTH_ABBR_TO_NUM
    /\ name.stem = "MonthlyTransaction"
    /\ name.copy \in {"", " (1)", "(2)"}
    /\ name.ext \in {"csv", "CSV", "xlsx", "XLSX"}

ExtLower(ext) == CASE ext = "CSV" -> "csv" [] ext = "XLSX" -> "xlsx" [] OTHER -> ext

CandidateFile(f) ==
    [country |-> f.country, path |-> f, year |-> DigitsToNat(f.name.year),
     month_num |-> MONTH_ABBR_TO_NUM[f.name.mon], ext |-> ExtLower(f.name.ext)]

IsCandidate(f) == f.is_file /\ FNAME_RE(f.name)

\* scan_country_dir: the candidates of one folder, in the order of the listing
scan_country_dir(country, listing) ==
    LET InFolder(f) == f.country = country /\ IsCandidate(f)
        found == SelectSeq(listing, InFolder)
    IN  [i \in 1..Len(found) |-> CandidateFile(found[i])]

RECURSIVE ScanAll(_, _)
\* main, lines 311-313: all_cands over COUNTRY_DIRS
ScanAll(countries, listing) ==
    IF countries = <<>> THEN <<>>
    ELSE scan_country_dir(Head(countries), listing) \o ScanAll(Tail(countries), listing)

\* Python's order of (year, month_num) tuples
PeriodAtMost(a, b) == a[1] < b[1] \/ (a[1] = b[1] /\ a[2] <= b[2])

\* pick_target_period, for a list that is not empty
pick_target_period(cands) ==
    LET periods == {<<cands[i].year, cands[i].month_num>> : i \in DOMAIN cands}
    IN  CHOOSE t \in periods : \A u \in periods : PeriodAtMost(u, t)

\* the entry a descending sort by anything else than st_mtime may put first:
\* here the oldest
Oldest(lst) ==
    lst[CHOOSE i \in DOMAIN lst :
            /\ \A j \in DOMAIN lst : lst[i].path.mtime <= lst[j].path.mtime
            /\ \A j \in 1..(i - 1) : lst[j].path.mtime > lst[i].path.mtime]

\* sorted(lst, key=st_mtime, reverse=True)[0]: the sort is stable, so the
\* first of the entries with the greatest modification time
Newest(lst) ==
    lst[CHOOSE i \in DOMAIN lst :
            /\ \A j \in DOMAIN lst : lst[j].path.mtime <= lst[i].path.mtime
            /\ \A j \in 1..(i - 1) : lst[j].path.mtime < lst[i].path.mtime]

OfPeriod(c, year, month_num) == c.year = year /\ c.month_num = month_num

pick_files_for_period(cands, year, month_num) ==
    LET Matching(c) == OfPeriod(c, year, month_num)
        matching == SelectSeq(cands, Matching)
        per_country == [cc \in {matching[i].country : i \in DOMAIN matching} |->
                           SelectSeq(matching, LAMBDA c : c.country = cc)]
    IN  [cc \in DOMAIN per_country |-> Newest(per_country[cc])]

\* --- runs over sample folders --------------------------------------------

MaxEntries == 3

Mtimes == {1, 2}

SampleFolders == {"DE", "FR"}

Name(y, mon, copy, ext) ==
    [year |-> y, mon |-> mon, stem |-> "MonthlyTransaction", copy |-> copy, ext |-> ext]

LastYear == <<"2", "0", "2", "4">>

\* a file of the forced period, one with the other spelling of its month and a
\* copy suffix, one of another month, one of another year, one with another
\* extension, and a folder named like a file of the period
SampleEntries ==
    {[name |-> Name(SampleYear, "Oct", "", "csv"), is_file |-> TRUE],
     [name |-> Name(SampleYear, "Okt", " (1)", "XLSX"), is_file |-> TRUE],
     [name |-> Name(SampleYear, "Sep", "", "csv"), is_file |-> TRUE],
     [name |-> Name(LastYear, "Oct", "", "CSV"), is_file |-> TRUE],
     [name |-> Name(SampleYear, "Oct", "", "txt"), is_file |-> TRUE],
     [name |-> Name(SampleYear, "Oct", "(2)", "csv"), is_file |-> FALSE]}

Entries ==
    {[country |-> cc, name |-> e.name, is_file |-> e.is_file, mtime |-> t] :
        cc \in SampleFolders, e \in SampleEntries, t \in Mtimes}

\* the entries of the folders in an order of iteration; a folder holds a name once
Listings ==
    {l \in SeqsUpTo(Entries, MaxEntries) :
        \A i \in DOMAIN l : \A j \in DOMAIN l :
            (i # j) => (l[i].country # l[j].country \/ l[i].name # l[j].name)}

NoPeriod == <<0, 0>>

InitPick ==
    /\ Idle
    /\ pc = "scan"
    /\ \E l \in Listings, forced \in BOOLEAN :
          probe = [kind |-> "files", listing |-> l, forced |-> forced, all_cands |-> <<>>,
                   target |-> NoPeriod, chosen |-> <<>>]

\* main, lines 310-316
ScanDirs ==
    /\ pc = "scan"
    /\ probe' = [probe EXCEPT !.all_cands = ScanAll(COUNTRY_DIRS("New"), probe.listing)]
    /\ pc' = IF probe'.all_cands = <<>> THEN "exit" ELSE "period"
    /\ UNCHANGED <<script, COL_MAP, PAY_MAP, FX_TO_EUR, dirs, pos, frames, log, written, report>>

\* main, lines 319-330
PickPeriod ==
    /\ pc = "period"
    /\ probe' = [probe EXCEPT !.target =
                    IF probe.forced
                    THEN <<FORCE_YEAR, MONTH_ABBR_TO_NUM[FORCE_MONTH_ABBR]>>
                    ELSE pick_target_period(probe.all_cands)]
    /\ pc' = "pick"
    /\ UNCHANGED <<script, COL_MAP, PAY_MAP, FX_TO_EUR, dirs, pos, frames, log, written, report>>

\* main, lines 335-338
PickFiles ==
    /\ pc = "pick"
    /\ probe' = [probe EXCEPT !.chosen =
                    pick_files_for_period(probe.all_cands, probe.target[1], probe.target[2])]
    /\ pc' = IF probe'.chosen = <<>> THEN "exit" ELSE "picked"
    /\ UNCHANGED <<script, COL_MAP, PAY_MAP, FX_TO_EUR, dirs, pos, frames, log, written, report>>

NextPick == ScanDirs \/ PickPeriod \/ PickFiles

SpecPick == InitPick /\ [][NextPick]_vars

\* the entries of folder cc that are files named by the convention for the
\* selected period
FilesOfPeriod(cc) ==
    {f \in Range(probe.listing) :
        /\ f.country = cc
        /\ f.is_file
        /\ FNAME_RE(f.name)
        /\ DigitsToNat(f.name.year) = probe.target[1]
        /\ MONTH_ABBR_TO_NUM[f.name.mon] = probe.target[2]}

Picked == probe.kind = "files" /\ probe.target # NoPeriod /\ pc \in {"picked", "exit"}

\* C19: once the files are picked, the result maps exactly the marketplaces
\* that hold a file named for the selected period, each to one such file of
\* its own folder, and no file of that folder named for the period has a
\* greater modification time.
C19_NewestOfPeriod ==
    Picked =>
        /\ DOMAIN probe.chosen = {cc \in Range(COUNTRY_DIRS("New")) : FilesOfPeriod(cc) # {}}
        /\ \A cc \in DOMAIN probe.chosen :
              /\ probe.chosen[cc].path \in FilesOfPeriod(cc)
              /\ \A f \in FilesOfPeriod(cc) : f.mtime <= probe.chosen[cc].path.mtime

\* C19 witness: the files are picked from folders where one marketplace holds
\* two files of the period with different modification times, listed oldest
\* first, and a newer file of another period, while the other marketplace
\* holds no file of the period.
C19_Witness ==
    /\ Picked
    /\ pc = "picked"
    /\ \E cc \in DOMAIN probe.chosen :
          /\ \E i \in DOMAIN probe.listing : \E j \in DOMAIN probe.listing :
                /\ i < j
                /\ probe.listing[i] \in FilesOfPeriod(cc)
                /\ probe.listing[j] \in FilesOfPeriod(cc)
                /\ probe.listing[i].mtime < probe.listing[j].mtime
          /\ \E f \in Range(probe.listing) :
                /\ f.country = cc /\ IsCandidate(f) /\ f \notin FilesOfPeriod(cc)
                /\ f.mtime >= probe.chosen[cc].path.mtime
    /\ \E cc \in Range(COUNTRY_DIRS("New")) : cc \notin DOMAIN probe.chosen

====
